---- MODULE Spec2Model ----
(***************************************************************************)
(* Model of the document pipeline of src/tools.py: the collection          *)
(* bootstrap (create_collection), ingestion (create_embeddings with        *)
(* extract_text) and similarity search (qdrant_search), acting on one      *)
(* remote vector store and one filesystem.                                  *)
(*                                                                         *)
(* Strings that the code builds (result messages, exception texts, file    *)
(* contents) are sequences of tokens, so that "contains", "is empty" and   *)
(* "strip" are computed and not assumed.                                   *)
(***************************************************************************)
EXTENDS Integers, Sequences, FiniteSets, TLC

\* ------------------------------------------------------------ configuration

\* tools.py:27, the default of the environment variable.
COLLECTION_NAME == "gemini-embeddings"

\* tools.py:29-30, scaled from 800/160 characters to the size of the model's texts.
CHUNK_SIZE == 1
CHUNK_OVERLAP == 0

\* The paths a caller may pass, the slots in which create_embeddings runs
\* (one per concurrently running invocation) and the texts a file may hold.
Paths == {"a.md", "b.md"}
Calls == {"c1", "c2"}
Whitespace == {" "}
Texts == { <<>>, <<" ", " ">>, <<"x">>, <<"x", " ", "y">> }
\* What the filesystem holds at a path: nothing, or a file an extractor reads text from.
NoFile == [exists |-> FALSE, text |-> <<>>]
File(t) == [exists |-> TRUE, text |-> t]

\* The filesystems a run starts from: a.md is missing or holds any of the texts,
\* b.md holds a text of one chunk.
FileSystems ==
    { s \in [Paths -> {NoFile} \cup { File(t) : t \in Texts }] : s["b.md"] = File(<<"x">>) }

\* The text str(e) of an exception raised by an external service or library.
ExcMessages == { <<>>, <<"connection", "refused">> }

\* A call with overwrite=false, which only adds points, is not started while the
\* index holds more points than this.
MaxPoints == 1
\* The largest top_k a search is called with.
MaxTopK == 1

VARIABLES
    fs,              \* filesystem: path -> NoFile or File(text)
    collections,     \* vector store: names of the existing collections
    payload_schema,  \* vector store: payload indexes of COLLECTION_NAME, field -> type
    points,          \* vector store: the points of COLLECTION_NAME
    pc,              \* create_embeddings, per slot: position in the function
    file_path,       \* create_embeddings, per slot: argument
    overwrite,       \* create_embeddings, per slot: argument
    chunks,          \* create_embeddings, per slot: local `chunks`
    built,           \* create_embeddings, per slot: the PointStructs built so far
    result,          \* create_embeddings, per slot: what the call returned / raised
    requests,        \* per slot: the index requests the current call has issued
    written,         \* per slot: number of points the current call has written
    before,          \* per slot: number of points of file_path when the call began
    solo,            \* per path: the index as it would be with only this path's calls
    boot,            \* the last create_collection call: outcome, create requests issued,
                     \* and whether the store held points
    search,          \* the last qdrant_search call: outcome and value
    phase,           \* ui.py main: position in the handling of a chat message
    heap,            \* the UserInfo objects alive: the session's, and the one the
                     \* current message's agentic_system() made
    user_info,       \* ui.py main: the object its local `user_info` refers to
    told,            \* the profile as the setter calls of the session have made it
    shown            \* the last get_user_info call: its output, and `told` at that time

vars == << fs, collections, payload_schema, points, pc, file_path, overwrite,
           chunks, built, result, requests, written, before, solo, boot, search,
           phase, heap, user_info, told, shown >>

chatVars == << phase, heap, user_info, told, shown >>

ingestVars == << pc, file_path, overwrite, chunks, built, result, requests, written,
                before >>
storeVars == << collections, payload_schema, points, solo >>

\* ------------------------------------------------------------------ strings

RECURSIVE lstrip(_)
lstrip(t) == IF t # <<>> /\ Head(t) \in Whitespace THEN lstrip(Tail(t)) ELSE t

RECURSIVE rstrip(_)
rstrip(t) ==
    IF t # <<>> /\ t[Len(t)] \in Whitespace THEN rstrip(SubSeq(t, 1, Len(t) - 1)) ELSE t

\* str.strip()
strip(t) == rstrip(lstrip(t))

\* `needle in haystack` for strings
Contains(haystack, needle) ==
    \E i \in 1..(Len(haystack) - Len(needle) + 1) :
        SubSeq(haystack, i, i + Len(needle) - 1) = needle

\* ------------------------------------------------------------------ chunking

\* MarkdownTextSplitter(chunk_size, chunk_overlap).split_text: windows of at most
\* CHUNK_SIZE characters, each starting CHUNK_SIZE - CHUNK_OVERLAP after the one
\* before, stripped, the empty ones dropped.
ChunkStep == IF CHUNK_SIZE > CHUNK_OVERLAP THEN CHUNK_SIZE - CHUNK_OVERLAP ELSE 1

RECURSIVE Windows(_, _)
Windows(t, i) ==
    IF i > Len(t) THEN <<>>
    ELSE LET j == IF i + CHUNK_SIZE - 1 < Len(t) THEN i + CHUNK_SIZE - 1 ELSE Len(t)
             w == strip(SubSeq(t, i, j))
             rest == IF j >= Len(t) THEN <<>> ELSE Windows(t, i + ChunkStep)
         IN  IF w = <<>> THEN rest ELSE <<w>> \o rest

split_text(t) == Windows(t, 1)

\* ------------------------------------------------------------------ results

NoResult == [kind |-> "none", value |-> <<>>]
Returned(v) == [kind |-> "returned", value |-> v]
Raised(e) == [kind |-> "raised", value |-> e]

\* tools.py:111
FileNotFoundResult == [status |-> "error", message |-> <<"File", "not", "found">>]
\* tools.py:125
NoTextResult ==
    [status |-> "error", message |-> <<"No", "text", "extracted", "from", "the", "file">>]
\* Variant of SuccessResult: the count is returned as a chunk_count field.
SuccessResult_chunk_count(n) ==
    [status |-> "success", message |-> <<"Document", "added">>, chunk_count |-> n]

\* tools.py:137
SuccessResult(n) ==
    [status |-> "success", message |-> <<"Document", "added", "with", ToString(n), "chunks">>]
\* Variant of EmbeddingErrorHandler: the exception is logged and re-raised.
EmbeddingErrorHandler_reraise(e) == Raised(e)

\* tools.py:138-140: `except Exception as e` of create_embeddings
EmbeddingErrorHandler(e) == Returned([status |-> "error", message |-> e])

\* Variant of SearchErrorHandler: the entry is str(e) alone, without the prefix.
SearchErrorHandler_bare(e) == Returned(<< [text |-> e] >>)

\* tools.py:80-82: `except Exception as e` of qdrant_search
SearchErrorHandler(e) ==
    Returned(<< [text |-> <<"Error", "searching", "documents", ":">> \o e] >>)

\* ------------------------------------------------------------------ extract_text

\* Variant of path_exists: the existence check is skipped.
path_exists_unchecked(f) == TRUE

\* tools.py:109: os.path.exists(file_path)
path_exists(f) == fs[f].exists

\* Variant of is_empty: the text is tested without strip().
is_empty_unstripped(text) == text = <<>>

\* tools.py:123: `not text.strip()`
is_empty(text) == strip(text) = <<>>

\* The outcomes of extract_text(f): an exception text, or the text of the file.
extract_text(f) ==
    IF ~path_exists(f)
    THEN { [ok |-> FALSE, exc |-> <<"File", "not", "found", ":", f>>, text |-> <<>>] }
    ELSE \* magic.from_file raises (outside the inner try)
         { [ok |-> FALSE, exc |-> e, text |-> <<>>] : e \in ExcMessages }
         \cup \* an extraction backend raises, re-raised as ValueError
         { [ok |-> FALSE,
            exc |-> <<"Unsupported", "file", "type", "or", "extraction", "error", ":">> \o e,
            text |-> <<>>] : e \in ExcMessages }
         \cup { [ok |-> TRUE, exc |-> <<>>, text |-> fs[f].text] }

\* ------------------------------------------------------------------ vector store

PointStruct(id, chunk, f) == [id |-> id, payload |-> [text |-> chunk, file_path |-> f]]

Ids(pts) == { pt.id : pt \in pts }
SeqSet(s) == { s[i] : i \in DOMAIN s }

\* uuid.uuid4(): an identifier no live point has
UsedIds == Ids(points) \cup UNION { Ids(SeqSet(built[q])) : q \in Calls }
uuid4 == CHOOSE i \in 0..Cardinality(UsedIds) :
            i \notin UsedIds /\ \A j \in 0..Cardinality(UsedIds) : j \notin UsedIds => i <= j

\* Variants of delete_by_file_path: the delete is left out; the delete has no filter.
delete_nothing(pts, f) == pts
delete_everything(pts, f) == {}

\* qdrant_client.delete with Filter(must=[FieldCondition(key="file_path", match=f)])
delete_by_file_path(pts, f) == { pt \in pts : pt.payload.file_path # f }

\* Variant of upsert: the batch replaces the collection's points.
upsert_replacing(pts, batch) == SeqSet(batch)

\* qdrant_client.upsert: writes the batch, replacing points of the same id
upsert(pts, batch) ==
    { pt \in pts : pt.id \notin Ids(SeqSet(batch)) }
    \cup { batch[i] : i \in { k \in DOMAIN batch :
                                 \A j \in DOMAIN batch : j > k => batch[j].id # batch[k].id } }

PointsOf(f) == { pt \in points : pt.payload.file_path = f }

\* ------------------------------------------------------------------ user profile

\* What a user tells about themself in a session.
Names == {"Ann", "Bob"}
Ages == {30}
Locations == {"Oslo"}
Interests == {"chess"}
PreferenceKeys == {"lang"}
PreferenceValues == {"en"}
\* add_user_interest is not called once the user has told this many interests.
MaxInterests == 1

\* The two UserInfo objects a message handler can reach: the one on_chat_start
\* stored in the session, and the one agentic_system() constructs.
SessionObject == "session user_info"
MessageObject == "agentic_system user_info"

\* main.py:66-72 and ui.py:18: UserInfo(name="Unknown", age=0, location="Unknown",
\* interests=[], preferences={}); a dict is the sequence of its items.
NewUserInfo ==
    [name |-> "Unknown", age |-> 0, location |-> "Unknown", interests |-> <<>>,
     preferences |-> <<>>]

\* dict.__setitem__: the value of an existing key is replaced, a new key is appended.
dict_set(d, k, v) ==
    IF \E i \in DOMAIN d : d[i][1] = k
    THEN [i \in DOMAIN d |-> IF d[i][1] = k THEN <<k, v>> ELSE d[i]]
    ELSE Append(d, <<k, v>>)

RECURSIVE dict_str(_)
dict_str(d) ==
    IF d = <<>> THEN <<>> ELSE <<d[1][1], ":", d[1][2]>> \o dict_str(Tail(d))

\* main.py:23-33: the text get_user_info returns for a UserInfo.
get_user_info(u) ==
    <<"User", "Info", ":">>
    \o <<"-", "Name", ":", u.name>>
    \o <<"-", "Age", ":", ToString(u.age)>>
    \o <<"-", "Location", ":", u.location>>
    \o <<"-", "Interests", ":", "[">> \o u.interests \o <<"]">>
    \o <<"-", "Preferences", ":", "{">> \o dict_str(u.preferences) \o <<"}">>

\* ui.py:13-20, on_chat_start: the session gets its UserInfo; no message is
\* being handled.
ChatStart ==
    /\ phase = "idle"
    /\ heap = [o \in {SessionObject, MessageObject} |-> NewUserInfo]
    /\ user_info = SessionObject
    /\ told = NewUserInfo
    /\ shown = [asked |-> FALSE, out |-> <<>>, told |-> NewUserInfo]

\* ------------------------------------------------------------------ initial state

Init ==
    /\ fs \in FileSystems
    /\ collections = {}
    /\ payload_schema = << >>
    /\ points = {}
    /\ pc = [p \in Calls |-> "idle"]
    /\ file_path = [p \in Calls |-> "a.md"]
    /\ overwrite = [p \in Calls |-> TRUE]
    /\ chunks = [p \in Calls |-> <<>>]
    /\ built = [p \in Calls |-> <<>>]
    /\ result = [p \in Calls |-> NoResult]
    /\ requests = [p \in Calls |-> <<>>]
    /\ written = [p \in Calls |-> 0]
    /\ before = [p \in Calls |-> 0]
    /\ solo = [f \in Paths |-> {}]
    /\ boot = [outcome |-> "none", issued |-> <<>>, held |-> FALSE]
    /\ search = [result |-> NoResult, failed |-> FALSE, top_k |-> 0]
    /\ ChatStart

\* ------------------------------------------------------------------ create_embeddings

\* The call ends, by `return` or by an exception leaving the function; its
\* locals are gone.
Finish(p, r) ==
    /\ pc' = [pc EXCEPT ![p] = "done"]
    /\ result' = [result EXCEPT ![p] = r]
    /\ chunks' = [chunks EXCEPT ![p] = <<>>]
    /\ built' = [built EXCEPT ![p] = <<>>]

\* The call goes on to the next statement.
Goto(p, label) ==
    /\ pc' = [pc EXCEPT ![p] = label]
    /\ UNCHANGED result

\* ui.py:58-73: a tool runs only in a message whose agentic_system(), and with it
\* create_collection, has returned.
Bootstrapped == boot.outcome = "returned"

\* tools.py:106-111: the call and its os.path.exists check.
Invoke(p, f, ow) ==
    /\ pc[p] \in {"idle", "done"}
    /\ Bootstrapped
    /\ ow \/ Cardinality(points) <= MaxPoints
    /\ file_path' = [file_path EXCEPT ![p] = f]
    /\ overwrite' = [overwrite EXCEPT ![p] = ow]
    /\ requests' = [requests EXCEPT ![p] = <<>>]
    /\ written' = [written EXCEPT ![p] = 0]
    /\ before' = [before EXCEPT ![p] = Cardinality(PointsOf(f))]
    /\ IF ~path_exists(f)
       THEN Finish(p, Returned(FileNotFoundResult))
       ELSE /\ pc' = [pc EXCEPT ![p] = IF ow THEN "delete" ELSE "extract"]
            /\ result' = [result EXCEPT ![p] = NoResult]
            /\ chunks' = [chunks EXCEPT ![p] = <<>>]
            /\ built' = [built EXCEPT ![p] = <<>>]
    /\ UNCHANGED << fs, storeVars, boot, search, chatVars >>

\* tools.py:113-121: the scoped delete of an overwriting call.
Delete(p) ==
    /\ pc[p] = "delete"
    /\ requests' = [requests EXCEPT ![p] = Append(@, "delete")]
    /\ \/ /\ COLLECTION_NAME \in collections
          /\ points' = delete_by_file_path(points, file_path[p])
          /\ solo' = [solo EXCEPT ![file_path[p]] = delete_by_file_path(@, file_path[p])]
          /\ Goto(p, "extract")
          /\ UNCHANGED << chunks, built >>
       \/ /\ \E e \in ExcMessages : Finish(p, EmbeddingErrorHandler(e))
          /\ UNCHANGED << points, solo >>
    /\ UNCHANGED << fs, collections, payload_schema, file_path, overwrite, written,
                    before, boot, search, chatVars >>

\* tools.py:122-126: extract_text, the empty-text check and the splitter.
Extract(p) ==
    /\ pc[p] = "extract"
    /\ \E o \in extract_text(file_path[p]) :
         IF ~o.ok
         THEN Finish(p, EmbeddingErrorHandler(o.exc))
         ELSE IF is_empty(o.text)
         THEN Finish(p, Returned(NoTextResult))
         ELSE \/ /\ chunks' = [chunks EXCEPT ![p] = split_text(o.text)]
                 /\ Goto(p, IF split_text(o.text) = <<>> THEN "upsert" ELSE "embed")
                 /\ UNCHANGED built
              \/ \* the splitter raises
                 \E e \in ExcMessages : Finish(p, EmbeddingErrorHandler(e))
    /\ UNCHANGED << fs, storeVars, file_path, overwrite, requests, written,
                    before, boot, search, chatVars >>

\* Variant of Embed: each point is upserted as soon as its chunk is embedded.
Embed_upsert_each(p) ==
    /\ pc[p] = "embed"
    /\ \/ /\ built' = [built EXCEPT ![p] =
                          Append(@, PointStruct(uuid4, chunks[p][Len(@) + 1], file_path[p]))]
          /\ points' = points \cup {PointStruct(uuid4, chunks[p][Len(built[p]) + 1], file_path[p])}
          /\ Goto(p, IF Len(built[p]) + 1 = Len(chunks[p]) THEN "upsert" ELSE "embed")
          /\ UNCHANGED chunks
       \/ /\ \E e \in ExcMessages : Finish(p, EmbeddingErrorHandler(e))
          /\ UNCHANGED points
    /\ UNCHANGED << fs, collections, payload_schema, solo, file_path, overwrite, requests,
                    written, before, boot, search, chatVars >>

\* tools.py:127-134: one iteration of the list comprehension, embedding one chunk.
Embed(p) ==
    /\ pc[p] = "embed"
    /\ \/ /\ built' = [built EXCEPT ![p] =
                          Append(@, PointStruct(uuid4, chunks[p][Len(@) + 1], file_path[p]))]
          /\ Goto(p, IF Len(built[p]) + 1 = Len(chunks[p]) THEN "upsert" ELSE "embed")
          /\ UNCHANGED chunks
       \/ \E e \in ExcMessages : Finish(p, EmbeddingErrorHandler(e))
    /\ UNCHANGED << fs, storeVars, file_path, overwrite, requests, written,
                    before, boot, search, chatVars >>

\* tools.py:135-137: the batch upsert and the success return.
Upsert(p) ==
    /\ pc[p] = "upsert"
    /\ requests' = [requests EXCEPT ![p] = Append(@, "upsert")]
    /\ \/ /\ COLLECTION_NAME \in collections
          /\ points' = upsert(points, built[p])
          /\ solo' = [solo EXCEPT ![file_path[p]] = upsert(@, built[p])]
          /\ written' = [written EXCEPT ![p] = @ + Cardinality(points' \ points)]
          /\ Finish(p, Returned(SuccessResult(Len(built[p]))))
       \/ /\ \E e \in ExcMessages : Finish(p, EmbeddingErrorHandler(e))
          /\ UNCHANGED << points, solo, written >>
    /\ UNCHANGED << fs, collections, payload_schema, file_path, overwrite,
                    before, boot, search, chatVars >>

IngestStep(p) ==
    \/ \E f \in Paths, ow \in BOOLEAN : Invoke(p, f, ow)
    \/ Delete(p)
    \/ Extract(p)
    \/ Embed(p)
    \/ Upsert(p)

\* ------------------------------------------------------------------ create_collection

\* Variant of create_collection: the payload index is created without looking at
\* the collection's payload_schema.
create_collection_always_index ==
    LET raises(iss, cs, sch) ==
            { [collections |-> cs, payload_schema |-> sch, issued |-> iss,
               outcome |-> "raised"] }
        returns(iss, cs, sch) ==
            { [collections |-> cs, payload_schema |-> sch, issued |-> iss,
               outcome |-> "returned"] }
        ensure_index(iss, cs, sch) ==
            raises(Append(iss, "create_payload_index"), cs, sch)
            \cup returns(Append(iss, "create_payload_index"), cs,
                         [k \in DOMAIN sch \cup {"file_path"} |->
                             IF k = "file_path" THEN "keyword" ELSE sch[k]])
    IN  raises(<<>>, collections, payload_schema)
        \cup
        IF COLLECTION_NAME \notin collections
        THEN raises(<<"create_collection">>, collections, payload_schema)
             \cup ensure_index(<<"create_collection">>,
                               collections \cup {COLLECTION_NAME}, << >>)
        ELSE ensure_index(<<>>, collections, payload_schema)

\* The ways one call of create_collection can go, from the store as it is: the
\* store it leaves, the create requests it issued, and whether it returned or
\* raised (tools.py:65-67 logs and re-raises).
create_collection ==
    LET raises(iss, cs, sch) ==
            { [collections |-> cs, payload_schema |-> sch, issued |-> iss,
               outcome |-> "raised"] }
        returns(iss, cs, sch) ==
            { [collections |-> cs, payload_schema |-> sch, issued |-> iss,
               outcome |-> "returned"] }
        \* tools.py:55-64
        ensure_index(iss, cs, sch) ==
            raises(iss, cs, sch)  \* get_collection fails
            \cup IF "file_path" \notin DOMAIN sch
                 THEN raises(Append(iss, "create_payload_index"), cs, sch)
                      \cup returns(Append(iss, "create_payload_index"), cs,
                                   [k \in DOMAIN sch \cup {"file_path"} |->
                                       IF k = "file_path" THEN "keyword" ELSE sch[k]])
                 ELSE returns(iss, cs, sch)
    IN  raises(<<>>, collections, payload_schema)  \* get_collections fails
        \cup \* tools.py:45-52
        IF COLLECTION_NAME \notin collections
        THEN raises(<<"create_collection">>, collections, payload_schema)
             \cup ensure_index(<<"create_collection">>,
                               collections \cup {COLLECTION_NAME}, << >>)
        ELSE ensure_index(<<>>, collections, payload_schema)

\* main.py:63 / ui.py:60: the bootstrap, run at the start of every message.
CreateCollection ==
    /\ \E o \in create_collection :
          /\ collections' = o.collections
          /\ payload_schema' = o.payload_schema
          /\ boot' = [outcome |-> o.outcome, issued |-> o.issued, held |-> points # {}]
    /\ UNCHANGED << fs, points, solo, ingestVars, search, chatVars >>

\* ------------------------------------------------------------------ qdrant_search

Min(a, b) == IF a < b THEN a ELSE b

\* query_points(limit=k): the k nearest points, in the order of their similarity,
\* which the store decides.
query_points(k) ==
    { r \in [1..Min(k, Cardinality(points)) -> points] :
        \A i, j \in DOMAIN r : i # j => r[i] # r[j] }

\* tools.py:69-82
Search(k) ==
    /\ Bootstrapped
    /\ \/ \* embed_content or query_points raises
          \E e \in ExcMessages :
             search' = [result |-> SearchErrorHandler(e), failed |-> TRUE, top_k |-> k]
       \/ /\ COLLECTION_NAME \in collections
          /\ \E r \in query_points(k) :
                search' = [result |-> Returned([i \in DOMAIN r |-> [text |-> r[i].payload.text]]),
                           failed |-> FALSE, top_k |-> k]
    /\ UNCHANGED << fs, storeVars, ingestVars, boot, chatVars >>

\* ------------------------------------------------------------------ specifications

\* A caller that serializes the ingestions of one path (spec section 5 makes this
\* the caller's responsibility): a call on f starts only when no other call on f runs.
PathFree(p, f) == \A q \in Calls \ {p} : pc[q] \in {"idle", "done"} \/ file_path[q] # f

IngestStepSerial(p) ==
    \/ \E f \in Paths, ow \in BOOLEAN : PathFree(p, f) /\ Invoke(p, f, ow)
    \/ Delete(p)
    \/ Extract(p)
    \/ Embed(p)
    \/ Upsert(p)

\* One session: the bootstrap, the ingestions of one caller one after the other,
\* and searches.
Next ==
    \/ CreateCollection
    \/ IngestStep("c1")
    \/ \E k \in 1..MaxTopK : Search(k)

Spec == Init /\ [][Next]_vars

\* The store after a bootstrap (ui.py:60), before any ingestion.
InitReady ==
    /\ fs \in FileSystems
    /\ collections = {COLLECTION_NAME}
    /\ payload_schema = [k \in {"file_path"} |-> "keyword"]
    /\ points = {}
    /\ solo = [f \in Paths |-> {}]
    /\ pc = [p \in Calls |-> "idle"]
    /\ file_path = [p \in Calls |-> "a.md"]
    /\ overwrite = [p \in Calls |-> TRUE]
    /\ chunks = [p \in Calls |-> <<>>]
    /\ built = [p \in Calls |-> <<>>]
    /\ result = [p \in Calls |-> NoResult]
    /\ requests = [p \in Calls |-> <<>>]
    /\ written = [p \in Calls |-> 0]
    /\ before = [p \in Calls |-> 0]
    /\ boot = [outcome |-> "returned", issued |-> <<>>, held |-> FALSE]
    /\ search = [result |-> NoResult, failed |-> FALSE, top_k |-> 0]
    /\ ChatStart

\* Concurrent callers on a bootstrapped store, the calls on one path serialized.
NextSerial == \E p \in Calls : IngestStepSerial(p)

SpecSerial == InitReady /\ [][NextSerial]_vars

\* ------------------------------------------------------------------ chat session

chatFrame == << fs, points, solo, ingestVars, search >>

\* ui.py:22-27: a message arrives; `user_info` is the session's object.
MessageReceived ==
    /\ phase = "idle"
    /\ phase' = "received"
    /\ user_info' = SessionObject
    /\ UNCHANGED << chatFrame, collections, payload_schema, boot, heap, told, shown >>

\* ui.py:58-66 with main.py:61-72 and 177: agentic_system() runs the bootstrap and
\* constructs a UserInfo; main unpacks the returned tuple into `user_info`. When
\* the bootstrap raises, main's `except Exception` ends the message.
AgenticSystem ==
    /\ phase = "received"
    /\ \E o \in create_collection :
          /\ collections' = o.collections
          /\ payload_schema' = o.payload_schema
          /\ boot' = [outcome |-> o.outcome, issued |-> o.issued, held |-> points # {}]
          /\ IF o.outcome = "returned"
             THEN /\ heap' = [heap EXCEPT ![MessageObject] = NewUserInfo]
                  /\ user_info' = MessageObject
                  /\ phase' = "running"
             ELSE /\ phase' = "failed"
                  /\ UNCHANGED << heap, user_info >>
    /\ UNCHANGED << chatFrame, told, shown >>

\* ui.py:69-73: Runner.run_streamed(..., context=user_info); a tool's
\* wrapper.context is that object.
Context == user_info

\* A context tool called by the orchestration agent during the run: the object
\* becomes u, and what the user has told becomes t.
ToolCall(u, t) ==
    /\ phase = "running"
    /\ heap' = [heap EXCEPT ![Context] = u]
    /\ told' = t
    /\ UNCHANGED << chatFrame, collections, payload_schema, boot, phase, user_info, shown >>

\* main.py:35-38
SetUserName(name) ==
    ToolCall([heap[Context] EXCEPT !.name = name], [told EXCEPT !.name = name])

\* main.py:40-43
SetUserAge(age) ==
    ToolCall([heap[Context] EXCEPT !.age = age], [told EXCEPT !.age = age])

\* main.py:45-48
SetUserLocation(location) ==
    ToolCall([heap[Context] EXCEPT !.location = location],
             [told EXCEPT !.location = location])

\* main.py:50-53
AddUserInterest(interest) ==
    /\ Len(told.interests) < MaxInterests
    /\ ToolCall([heap[Context] EXCEPT !.interests = Append(@, interest)],
                [told EXCEPT !.interests = Append(@, interest)])

\* main.py:55-58
SetUserPreference(key, value) ==
    ToolCall([heap[Context] EXCEPT !.preferences = dict_set(@, key, value)],
             [told EXCEPT !.preferences = dict_set(@, key, value)])

\* main.py:23-33, called by the orchestration agent during the run.
GetUserInfo ==
    /\ phase = "running"
    /\ shown' = [asked |-> TRUE, out |-> get_user_info(heap[Context]), told |-> told]
    /\ UNCHANGED << chatFrame, collections, payload_schema, boot, phase, heap, user_info,
                    told >>

\* ui.py:74-100: the response is sent and the history saved.
MessageEnd ==
    /\ phase \in {"running", "failed"}
    /\ phase' = "idle"
    /\ UNCHANGED << chatFrame, collections, payload_schema, boot, heap, user_info, told,
                    shown >>

\* One chat session: its messages one after the other, the orchestration agent
\* calling the context tools in each.
NextChat ==
    \/ MessageReceived
    \/ AgenticSystem
    \/ \E name \in Names : SetUserName(name)
    \/ \E age \in Ages : SetUserAge(age)
    \/ \E location \in Locations : SetUserLocation(location)
    \/ \E interest \in Interests : AddUserInterest(interest)
    \/ \E key \in PreferenceKeys, value \in PreferenceValues : SetUserPreference(key, value)
    \/ GetUserInfo
    \/ MessageEnd

SpecChat == Init /\ [][NextChat]_vars

\* ------------------------------------------------------------------ properties

IsBlank(t) == \A i \in DOMAIN t : t[i] \in Whitespace
ChunksOf(f) == split_text(fs[f].text)
PointsIn(pts, f) == { pt \in pts : pt.payload.file_path = f }
Succeeded(p) ==
    pc[p] = "done" /\ result[p].kind = "returned" /\ result[p].value.status = "success"
Failed(p) ==
    pc[p] = "done" /\ result[p].kind = "returned" /\ result[p].value.status = "error"

\* C1 - Idempotent re-ingestion: when a call with overwrite=true has returned
\* success, the index holds, for that file_path, exactly one point per chunk of
\* the file: as many points as one ingestion makes, and each chunk text as often
\* as the splitter produces it, however many times the file was ingested before.
C1_IdempotentReingestion ==
    \A p \in Calls :
        (Succeeded(p) /\ overwrite[p]) =>
            LET f == file_path[p]
                c == ChunksOf(f)
            IN  /\ Cardinality(PointsOf(f)) = Len(c)
                /\ \A pt \in PointsOf(f) :
                      Cardinality({ q \in PointsOf(f) : q.payload.text = pt.payload.text })
                          = Cardinality({ i \in DOMAIN c : c[i] = pt.payload.text })
                /\ \A i \in DOMAIN c : \E pt \in PointsOf(f) : pt.payload.text = c[i]

\* A re-ingestion: the file already had all its points when the call began.
C1_Witness ==
    \E p \in Calls :
        /\ Succeeded(p) /\ overwrite[p]
        /\ before[p] >= 1
        /\ before[p] = Len(ChunksOf(file_path[p]))
        /\ Cardinality(PointsOf(file_path[p])) = before[p]

\* C2 - Dedup scoping: no step of a create_embeddings call on one path, whatever
\* its arguments and whether it goes on, fails or succeeds, changes the set of
\* points of another path.
C2_DedupScoping ==
    [][ \A p \in Calls :
            IngestStep(p) =>
                \A g \in Paths \ {file_path'[p]} : PointsIn(points', g) = PointsIn(points, g)
      ]_vars

\* A path was re-ingested with overwrite while the other path had points.
C2_Witness ==
    \E p \in Calls, g \in Paths :
        /\ Succeeded(p) /\ overwrite[p] /\ before[p] >= 1
        /\ g # file_path[p]
        /\ PointsOf(g) # {}
        /\ PointsOf(file_path[p]) # {}

\* C3 - Empty-content rejection: a call on an existing file whose text is empty
\* or whitespace-only ends with status "error", has issued no upsert and has
\* written no point.
C3_EmptyContentRejected ==
    \A p \in Calls :
        (pc[p] = "done" /\ fs[file_path[p]].exists /\ IsBlank(fs[file_path[p]].text)) =>
            /\ Failed(p)
            /\ written[p] = 0
            /\ \A i \in DOMAIN requests[p] : requests[p][i] # "upsert"

C3_Witness ==
    \E p \in Calls :
        /\ pc[p] = "done"
        /\ fs[file_path[p]].exists
        /\ fs[file_path[p]].text # <<>>
        /\ IsBlank(fs[file_path[p]].text)
        /\ result[p] = Returned(NoTextResult)

\* C4 - Missing file: a call on a path that does not exist returns status "error"
\* with a message containing "not found", and has issued neither a delete nor an
\* upsert, overwrite or not.
C4_MissingFile ==
    \A p \in Calls :
        (pc[p] = "done" /\ ~fs[file_path[p]].exists) =>
            /\ Failed(p)
            /\ Contains(result[p].value.message, <<"not", "found">>)
            /\ requests[p] = <<>>
            /\ written[p] = 0

\* The call was made with overwrite=true on a store that holds points.
C4_Witness ==
    \E p \in Calls :
        /\ pc[p] = "done" /\ ~fs[file_path[p]].exists /\ overwrite[p]
        /\ Failed(p)
        /\ points # {}

\* C5 - Search degradation: a qdrant_search whose embedding call or index query
\* failed has returned (not raised) a sequence of exactly one element whose text
\* is not empty.
C5_SearchDegradation ==
    search.failed =>
        /\ search.result.kind = "returned"
        /\ Len(search.result.value) = 1
        /\ search.result.value[1].text # <<>>

\* The failure's own text was empty.
C5_Witness ==
    /\ search.failed
    /\ search.result.value[1].text = <<"Error", "searching", "documents", ":">>

\* C6 as stated - every result is {status, message} and a success result carries
\* an integer chunk_count equal to the number of points written.
C6_ResultHasChunkCount ==
    \A p \in Calls :
        pc[p] = "done" =>
            /\ result[p].kind = "returned"
            /\ result[p].value.status \in {"success", "error"}
            /\ (result[p].value.status = "success" =>
                   /\ "chunk_count" \in DOMAIN result[p].value
                   /\ result[p].value.chunk_count = written[p])

\* C6 as amended - every result has exactly the keys status and message, status
\* being "success" or "error"; a success result has no chunk_count, and carries
\* the number of points written only in its message, "Document added with N chunks".
C6_ResultShape ==
    \A p \in Calls :
        pc[p] = "done" =>
            /\ result[p].kind = "returned"
            /\ DOMAIN result[p].value = {"status", "message"}
            /\ result[p].value.status \in {"success", "error"}
            /\ DOMAIN result[p].value.message = 1..Len(result[p].value.message)
            /\ (result[p].value.status = "success" =>
                   /\ written[p] >= 1
                   /\ result[p].value.message =
                         <<"Document", "added", "with", ToString(written[p]), "chunks">>)

C6_Witness ==
    \E p \in Calls :
        /\ Succeeded(p)
        /\ written[p] = 2
        /\ result[p].value.message[4] = "2"

\* C7 - No exception escapes ingestion: no call ends by raising; a call in which
\* the delete, the extraction, the splitter, an embedding or the upsert failed
\* has returned status "error" with a message.
C7_NoExceptionEscapes ==
    \A p \in Calls :
        /\ result[p].kind # "raised"
        /\ (pc[p] = "done" /\ written[p] = 0) =>
              /\ Failed(p)
              /\ "message" \in DOMAIN result[p].value

\* The batch upsert failed, after the delete and the embeddings went through.
C7_Witness ==
    \E p \in Calls :
        /\ Failed(p)
        /\ requests[p] = <<"delete", "upsert">>
        /\ result[p].value.message = <<"connection", "refused">>

\* C8 - Concurrent ingestion of different files: with the calls on one path
\* serialized and calls on different paths interleaved step by step, once every
\* call has returned the points of each path are exactly those its own calls
\* produce on a store no other path's call touches.
C8_ConcurrentIngestionSafe ==
    (\A p \in Calls : pc[p] \in {"idle", "done"}) =>
        \A f \in Paths : PointsOf(f) = solo[f]

\* Two calls on different paths have both returned success and their embedding
\* steps interleaved: the identifiers drawn for one path lie around one drawn
\* for the other.
C8_Witness ==
    /\ \A p \in Calls : Succeeded(p) /\ overwrite[p] /\ before[p] >= 1
    /\ \E f \in Paths, g \in Paths :
          /\ f # g
          /\ \E a \in PointsOf(f), b \in PointsOf(g), c \in PointsOf(f) :
                a.id < b.id /\ b.id < c.id

C10_AllOrNothing ==
    [][ \A p \in Calls :
          LET f == file_path'[p]
              order == IF overwrite'[p] THEN <<"delete", "upsert">> ELSE <<"upsert">>
          IN  /\ Len(requests'[p]) <= Len(order)
              /\ requests'[p] = SubSeq(order, 1, Len(requests'[p]))
              /\ (pc'[p] # "done" => written'[p] = 0)
              /\ written'[p] \in {0, Len(split_text(fs[f].text))}
              /\ (written'[p] > 0 => Succeeded(p)')
              /\ (/\ pc[p] \in {"embed", "upsert"}
                  /\ pc'[p] = "done"
                  /\ result'[p].value.status = "error")
                    => /\ written'[p] = 0
                       /\ (overwrite[p] => PointsIn(points', f) = {})
      ]_vars

\* A re-ingestion with overwrite=true of a file of two chunks, already indexed,
\* failed in the upsert: the file is left without points.
C10_Witness ==
    \E p \in Calls :
        /\ Failed(p) /\ overwrite[p]
        /\ requests[p] = <<"delete", "upsert">>
        /\ before[p] = 2
        /\ PointsOf(file_path[p]) = {}

\* C11 - User-profile context is maintained across a chat session: what
\* get_user_info returns is the profile as the setter calls of the session, those
\* of earlier messages included, have made it.
C11_ProfileMaintained ==
    shown.asked => shown.out = get_user_info(shown.told)

====
